---- MODULE Spec2Model ----
(***************************************************************************)
(* Model of src/src/App.jsx: the backend URL resolver                      *)
(* (tryDeriveBackendURLs), the sequential fetch client (apiGet) and the    *)
(* navigation state of the App component.                                  *)
(*                                                                         *)
(* JavaScript strings are sequences of one-character strings, so that      *)
(* String.prototype.replace / includes and the trailing-slash regex are    *)
(* computed on characters as the engine computes them.                     *)
(***************************************************************************)
EXTENDS Naturals, Sequences, FiniteSets, Bags, TLC

VARIABLES
  envUrl,        \* import.meta.env.VITE_BACKEND_URL
  location,      \* window.location: [readable, protocol, host]
  derived,       \* resolver harness: last list returned by tryDeriveBackendURLs
  calls,         \* apiGet activations: call id -> frame of the async function
  pending,       \* the frames of the apiGet calls of confirmTech/confirmFocus
  stage, menuItems, techItems, designFocus, reviews, contacts,
  selectedTech, projects, selectedFocus, gallery, loading, error,
  mounted,       \* the effect's `mounted` flag
  bootPc,        \* position of bootstrap(): "init" | "waiting" | "done"
  last           \* the handler that ran last and what it observed

envVars == <<envUrl, location>>
navVars == <<stage, menuItems, techItems, designFocus, reviews, contacts,
             selectedTech, projects, selectedFocus, gallery, loading, error,
             mounted, bootPc>>
vars == <<envUrl, location, derived, calls, pending, stage, menuItems, techItems,
          designFocus, reviews, contacts, selectedTech, projects,
          selectedFocus, gallery, loading, error, mounted, bootPc, last>>

----------------------------------------------------------------------------
(* Bounds *)

MaxHostParts == 3    \* a host is built from at most this many segments
MaxSlashes == 2      \* an override ends in at most this many '/'
MaxInFlight == 2     \* confirm fetches that can be pending at once

----------------------------------------------------------------------------
(* JavaScript values and string primitives *)

\* undefined: a value distinct from every string (no string has a
\* multi-character element)
Undefined == <<"undefined">>

\* null, for useState(null)
Null == <<"null">>

EmptyStr == <<>>

\* ToBoolean on undefined, null or a string
Truthy(v) == v # Undefined /\ v # Null /\ v # EmptyStr

\* String.prototype.indexOf, 1-based; 0 when the pattern does not occur
IndexOf(s, pat) ==
  LET hits == { i \in 1..(Len(s) + 1) :
                  /\ i + Len(pat) - 1 <= Len(s)
                  /\ SubSeq(s, i, i + Len(pat) - 1) = pat }
  IN IF hits = {} THEN 0 ELSE CHOOSE i \in hits : \A j \in hits : i <= j

\* String.prototype.includes
Includes(s, pat) == IndexOf(s, pat) # 0

\* String.prototype.replace with a string pattern: the first occurrence only
Replace(s, pat, rep) ==
  LET i == IndexOf(s, pat)
  IN IF i = 0 THEN s
     ELSE SubSeq(s, 1, i - 1) \o rep \o SubSeq(s, i + Len(pat), Len(s))

EndsWith(s, suf) ==
  /\ Len(suf) <= Len(s)
  /\ SubSeq(s, Len(s) - Len(suf) + 1, Len(s)) = suf

\* Array.prototype.includes
Has(seq, x) == \E i \in 1..Len(seq) : seq[i] = x

S3000 == <<"3", "0", "0", "0">>
S8000 == <<"8", "0", "0", "0">>
Dash3000 == <<"-">> \o S3000
Dash8000 == <<"-">> \o S8000
DotRun == <<".", "r", "u", "n">>
DashApiDotRun == <<"-", "a", "p", "i">> \o DotRun

----------------------------------------------------------------------------
(* tryDeriveBackendURLs *)

\* u => (u || '').replace(/\/$/, '') : one '/' at the very end is removed
Normalize(u) ==
  LET s == IF Truthy(u) THEN u ELSE EmptyStr
  IN IF s # <<>> /\ s[Len(s)] = "/" THEN SubSeq(s, 1, Len(s) - 1) ELSE s

\* Array.from(new Set(xs)): a Set keeps the insertion order of first
\* occurrences
RECURSIVE SetInsertAll(_, _)
SetInsertAll(acc, xs) ==
  IF xs = <<>> THEN acc
  ELSE SetInsertAll(IF Has(acc, Head(xs)) THEN acc ELSE Append(acc, Head(xs)),
                    Tail(xs))

UniqueKeepsLast(xs) ==
  LET RECURSIVE rev(_)
      rev(s) == IF s = <<>> THEN <<>> ELSE Append(rev(Tail(s)), Head(s))
  IN rev(SetInsertAll(<<>>, rev(xs)))

Unique(xs) == SetInsertAll(<<>>, xs)

\* line 9: if (envUrl) urls.push(envUrl)
EnvPart(e) == IF Truthy(e) THEN <<e>> ELSE <<>>

\* line 13-14: byPort, pushed whenever window.location can be read
ByPort(loc) ==
  loc.protocol \o <<"/", "/">> \o Replace(loc.host, S3000, S8000)

\* line 18-19: the Modal-style host
ApiHost(loc) ==
  loc.protocol \o <<"/", "/">>
    \o Replace(Replace(loc.host, Dash3000, Dash8000), DotRun, DashApiDotRun)

\* lines 10-21: the try block; a throw at line 11 leaves urls untouched
LocationPartPortOnlyIf3000(loc) ==
  IF ~loc.readable THEN <<>>
  ELSE (IF Includes(loc.host, S3000) THEN <<ByPort(loc)>> ELSE <<>>)
         \o (IF Includes(loc.host, Dash3000) THEN <<ApiHost(loc)>> ELSE <<>>)

LocationPart(loc) ==
  IF ~loc.readable THEN <<>>
  ELSE <<ByPort(loc)>>
         \o (IF Includes(loc.host, Dash3000) THEN <<ApiHost(loc)>> ELSE <<>>)

\* lines 8-23: urls before normalisation
RawURLsFallbackFirst(e, loc) == <<EmptyStr>> \o EnvPart(e) \o LocationPart(loc)

RawURLs(e, loc) == EnvPart(e) \o LocationPart(loc) \o <<EmptyStr>>

tryDeriveBackendURLs(e, loc) ==
  LET raw == RawURLs(e, loc)
  IN Unique([i \in 1..Len(raw) |-> Normalize(raw[i])])

----------------------------------------------------------------------------
(* The network and the backend *)

\* What one `await fetch(url)` can settle to: a rejection (DNS, refused
\* connection, timeout), a response with a non-OK status, or an OK response.
FetchOutcomes == {"transport", "http404", "http500", "ok"}

\* What `await res.json()` can settle to on an OK response
JsonOutcomes == {"json", "badjson"}

\* the Error values apiGet can hold in lastErr
UndefinedErr == "undefined"
ErrorOf(o) ==
  CASE o = "transport" -> "TypeError: Failed to fetch"
    [] o = "http404" -> "Error: HTTP 404"
    [] o = "http500" -> "Error: HTTP 500"
    [] o = "badjson" -> "SyntaxError: Unexpected token"

PathMenu == <<"/", "a", "p", "i", "/", "m", "e", "n", "u">>
PathTech == <<"/", "a", "p", "i", "/", "f", "r", "o", "n", "t", "e", "n", "d",
              "/", "t", "e", "c", "h">>
PathFocus == <<"/", "a", "p", "i", "/", "d", "e", "s", "i", "g", "n",
               "/", "f", "o", "c", "u", "s">>
PathReviews == <<"/", "a", "p", "i", "/", "r", "e", "v", "i", "e", "w", "s">>
PathContact == <<"/", "a", "p", "i", "/", "c", "o", "n", "t", "a", "c", "t">>
PathProjects == <<"/", "a", "p", "i", "/", "p", "r", "o", "j", "e", "c", "t",
                  "s", "?", "t", "e", "c", "h", "=">>
PathGallery == <<"/", "a", "p", "i", "/", "d", "e", "s", "i", "g", "n", "/",
                 "g", "a", "l", "l", "e", "r", "y", "?", "f", "o", "c", "u",
                 "s", "=">>

React == <<"R", "e", "a", "c", "t">>
CSharp == <<"C", "#">>
Motion == <<"M", "o", "t", "i", "o", "n">>

\* encodeURIComponent: unreserved characters are kept, the others are
\* percent-encoded
Unreserved ==
  {"A","B","C","D","E","F","G","H","I","J","K","L","M","N","O","P","Q","R",
   "S","T","U","V","W","X","Y","Z","a","b","c","d","e","f","g","h","i","j",
   "k","l","m","n","o","p","q","r","s","t","u","v","w","x","y","z","0","1",
   "2","3","4","5","6","7","8","9","-","_",".","!","~","*","'","(",")"}

PercentCode(ch) ==
  CASE ch = " " -> <<"%", "2", "0">>
    [] ch = "#" -> <<"%", "2", "3">>
    [] ch = "&" -> <<"%", "2", "6">>
    [] ch = "+" -> <<"%", "2", "B">>
    [] ch = "/" -> <<"%", "2", "F">>
    [] ch = ":" -> <<"%", "3", "A">>
    [] ch = "=" -> <<"%", "3", "D">>
    [] ch = "?" -> <<"%", "3", "F">>

\* JsToString on null, undefined or a string
JsToString(v) ==
  IF v = Null THEN <<"n", "u", "l", "l">>
  ELSE IF v = Undefined THEN <<"u", "n", "d", "e", "f", "i", "n", "e", "d">>
  ELSE v

RECURSIVE PercentEncode(_)
PercentEncode(s) ==
  IF s = <<>> THEN <<>>
  ELSE (IF Head(s) \in Unreserved THEN <<Head(s)>> ELSE PercentCode(Head(s)))
         \o PercentEncode(Tail(s))

encodeURIComponent(v) == PercentEncode(JsToString(v))

\* The JSON document the backend serves for a request URL (section 6 of the
\* specification: an object with one array-valued key).  The stub echoes the
\* request URL in `self`, which the client never reads, so that the documents
\* of different candidates differ.  The projects of C# come without the
\* `projects` key.
Backend(url) ==
  IF EndsWith(url, PathMenu)
    THEN [self |-> url,
          items |-> <<[key |-> "frontend"], [key |-> "uiux"],
                      [key |-> "reviews"], [key |-> "about"],
                      [key |-> "blog"]>>]
  ELSE IF EndsWith(url, PathTech) THEN [self |-> url, items |-> <<React, CSharp>>]
  ELSE IF EndsWith(url, PathFocus) THEN [self |-> url, items |-> <<Motion>>]
  ELSE IF EndsWith(url, PathReviews) THEN [self |-> url, items |-> <<"review">>]
  ELSE IF EndsWith(url, PathContact) THEN [self |-> url, items |-> <<"email">>]
  ELSE IF EndsWith(url, PathProjects \o encodeURIComponent(React))
    THEN [self |-> url, projects |-> <<[title |-> "X"]>>]
  ELSE IF EndsWith(url, PathProjects \o encodeURIComponent(CSharp))
    THEN [self |-> url, projects |-> Null]
  ELSE IF EndsWith(url, PathGallery \o encodeURIComponent(Motion))
    THEN [self |-> url, items |-> <<[title |-> "G"]>>]
  ELSE [self |-> url]

\* ToBoolean(v) is false: v is undefined, null, false, 0 or ''.  The test goes
\* through the printed form of v, so that it is defined on a value of any type
\* a JSON document can hold.
Falsy(v) ==
  ToString(v) \in {ToString(Undefined), ToString(Null), ToString(FALSE),
                   ToString(0), ToString(EmptyStr)}

\* body.k || []: an absent field reads as undefined
FieldOrEmpty(body, k) ==
  IF k \in DOMAIN body /\ ~Falsy(body[k]) THEN body[k] ELSE <<>>

----------------------------------------------------------------------------
(* apiGet: one frame per activation *)

IdleFrame ==
  [st |-> "idle", owner |-> "none", arg |-> Null, path |-> <<>>,
   bases |-> <<>>, idx |-> 0, lastErr |-> UndefinedErr, requests |-> <<>>,
   outcomes |-> <<>>, result |-> [self |-> <<>>], thrown |-> UndefinedErr]

\* lines 31-34 and 41: enter the loop at position i; the request for
\* bases[i] is issued, or the loop is over and the function throws
LoopAt(f, i) ==
  IF i <= Len(f.bases)
  THEN [f EXCEPT !.st = "fetch", !.idx = i,
                 !.requests = Append(@, f.bases[i] \o f.path)]
  ELSE [f EXCEPT !.st = "thrown", !.idx = i,
                 !.thrown = IF f.lastErr # UndefinedErr THEN f.lastErr
                            ELSE "Error: No backend reachable"]

\* lines 28-34: the call, up to its first await
ApiGetFrame(owner, arg, path, e, loc) ==
  LoopAt([IdleFrame EXCEPT !.owner = owner, !.arg = arg, !.path = path,
                           !.bases = tryDeriveBackendURLs(e, loc)], 1)

\* lines 34-39: `await fetch(url)` settles
OnFetchSettledKeepsFirstErr(f, o) ==
  LET g == [f EXCEPT !.outcomes = Append(@, o)]
  IN IF o = "ok" THEN [g EXCEPT !.st = "json"]
     ELSE LoopAt([g EXCEPT !.lastErr = IF @ = UndefinedErr THEN ErrorOf(o)
                                       ELSE @],
                 f.idx + 1)

OnFetchSettled(f, o) ==
  LET g == [f EXCEPT !.outcomes = Append(@, o)]
  IN IF o = "ok" THEN [g EXCEPT !.st = "json"]
     ELSE LoopAt([g EXCEPT !.lastErr = ErrorOf(o)], f.idx + 1)

\* lines 35 and 37-39: `await res.json()` settles
OnJsonSettledGoesOn(f, o) ==
  LET g == [f EXCEPT !.outcomes = [@ EXCEPT ![Len(@)] = o]]
  IN LoopAt(IF o = "json" THEN g ELSE [g EXCEPT !.lastErr = ErrorOf(o)],
            f.idx + 1)

OnJsonSettledThrows(f, o) ==
  LET g == [f EXCEPT !.outcomes = [@ EXCEPT ![Len(@)] = o]]
  IN IF o = "json"
     THEN [g EXCEPT !.st = "returned",
                    !.result = Backend(f.requests[Len(f.requests)])]
     ELSE [g EXCEPT !.st = "thrown", !.lastErr = ErrorOf(o),
                    !.thrown = ErrorOf(o)]

OnJsonSettled(f, o) ==
  LET g == [f EXCEPT !.outcomes = [@ EXCEPT ![Len(@)] = o]]
  IN IF o = "json"
     THEN [g EXCEPT !.st = "returned",
                    !.result = Backend(f.requests[Len(f.requests)])]
     ELSE LoopAt([g EXCEPT !.lastErr = ErrorOf(o)], f.idx + 1)

InFlight(f) == f.st \in {"fetch", "json"}

----------------------------------------------------------------------------
(* Call ids.  1..5 are the five apiGet calls of bootstrap in the order of   *)
(* the Promise.all array, 0 is the call of the apiGet harness.  The calls   *)
(* made by the confirm handlers are anonymous: their frames form a bag.     *)

BootIds == 1..5
CallIds == 0..5
HarnessId == CHOOSE c \in CallIds : c \notin BootIds

BootPath(c) ==
  CASE c = 1 -> PathMenu
    [] c = 2 -> PathTech
    [] c = 3 -> PathFocus
    [] c = 4 -> PathReviews
    [] c = 5 -> PathContact

BootstrapError ==
  "Unable to reach backend. Set VITE_BACKEND_URL or retry in a moment."

----------------------------------------------------------------------------
(* Inputs *)

Http == <<"h", "t", "t", "p", ":">>
Https == <<"h", "t", "t", "p", "s", ":">>
Protocols == {Http, Https}

HostSegments ==
  {<<"a">>, S3000, Dash3000, DotRun, <<".", "d", "e", "v">>}

RECURSIVE HostsUpTo(_)
HostsUpTo(n) ==
  IF n = 0 THEN {<<>>}
  ELSE LET prev == HostsUpTo(n - 1)
       IN prev \cup {h \o s : h \in prev, s \in HostSegments}

Hosts == HostsUpTo(MaxHostParts)

Unreadable == [readable |-> FALSE, protocol |-> <<>>, host |-> <<>>]

Locations ==
  {Unreadable}
    \cup {[readable |-> TRUE, protocol |-> p, host |-> h] :
            p \in Protocols, h \in Hosts}

RECURSIVE Slashes(_)
Slashes(k) == IF k = 0 THEN <<>> ELSE <<"/">> \o Slashes(k - 1)

OverrideStems ==
  {<<>>, Http \o <<"/", "/", "b">>, Http \o <<"/", "/", "a">> \o S8000}

Overrides ==
  {Undefined} \cup {b \o Slashes(k) : b \in OverrideStems, k \in 0..MaxSlashes}

\* the environments of the apiGet harness: candidate lists of 1 to 4 entries
FetchLocations ==
  {Unreadable}
    \cup {[readable |-> TRUE, protocol |-> Http, host |-> h] :
            h \in {<<"a">> \o S3000, <<"a">> \o Dash3000 \o DotRun}}

FetchOverrides == {Undefined, <<"/">>, Http \o <<"/", "/", "b">>}

\* the environment of the App: the page is served from localhost:3000 and no
\* override is configured
AppLocation ==
  [readable |-> TRUE, protocol |-> Http,
   host |-> <<"l", "o", "c", "a", "l", "h", "o", "s", "t", ":">> \o S3000]

----------------------------------------------------------------------------
(* State of the App component after construction (lines 83-98) *)

AppInit ==
  /\ stage = "menu"
  /\ menuItems = <<>>
  /\ techItems = <<>>
  /\ designFocus = <<>>
  /\ reviews = <<>>
  /\ contacts = <<>>
  /\ selectedTech = Null
  /\ projects = <<>>
  /\ selectedFocus = Null
  /\ gallery = <<>>
  /\ loading = TRUE
  /\ error = ""
  /\ mounted = TRUE
  /\ bootPc = "init"

NotCalled == [called |-> FALSE, urls |-> <<>>]

----------------------------------------------------------------------------
(* Resolver harness: tryDeriveBackendURLs() evaluated in every environment *)

ResolverInit ==
  /\ envUrl \in Overrides
  /\ location \in Locations
  /\ derived = NotCalled
  /\ calls = [c \in CallIds |-> IdleFrame]
  /\ pending = EmptyBag
  /\ AppInit
  /\ last = [op |-> "init"]

Derive ==
  /\ ~derived.called
  /\ derived' = [called |-> TRUE, urls |-> tryDeriveBackendURLs(envUrl, location)]
  /\ last' = [op |-> "derive"]
  /\ UNCHANGED <<envVars, calls, pending, navVars>>

ResolverNext == Derive

SpecResolver == ResolverInit /\ [][ResolverNext]_vars

----------------------------------------------------------------------------
(* apiGet harness: one call of apiGet('/api/menu') under every pattern of    *)
(* outcomes                                                                 *)

FetchInit ==
  /\ envUrl \in FetchOverrides
  /\ location \in FetchLocations
  /\ derived = NotCalled
  /\ calls = [c \in CallIds |-> IdleFrame]
  /\ pending = EmptyBag
  /\ AppInit
  /\ last = [op |-> "init"]

HarnessCall ==
  /\ calls[HarnessId].st = "idle"
  /\ calls' = [calls EXCEPT ![HarnessId] =
                 ApiGetFrame("harness", Null, PathMenu, envUrl, location)]
  /\ last' = [op |-> "apiGet"]
  /\ UNCHANGED <<envVars, derived, pending, navVars>>

HarnessFetchSettles(o) ==
  /\ calls[HarnessId].st = "fetch"
  /\ calls' = [calls EXCEPT ![HarnessId] = OnFetchSettled(@, o)]
  /\ last' = [op |-> "fetchSettled"]
  /\ UNCHANGED <<envVars, derived, pending, navVars>>

HarnessJsonSettles(o) ==
  /\ calls[HarnessId].st = "json"
  /\ calls' = [calls EXCEPT ![HarnessId] = OnJsonSettled(@, o)]
  /\ last' = [op |-> "jsonSettled"]
  /\ UNCHANGED <<envVars, derived, pending, navVars>>

FetchNext ==
  \/ HarnessCall
  \/ \E o \in FetchOutcomes : HarnessFetchSettles(o)
  \/ \E o \in JsonOutcomes : HarnessJsonSettles(o)

SpecFetch == FetchInit /\ [][FetchNext]_vars

----------------------------------------------------------------------------
(* Parallel apiGet calls: apiGet('/api/menu') and apiGet('/api/frontend/tech') *)
(* are called one after the other without an await in between, as the first  *)
(* two entries of the array of Promise.all, and their awaits settle in any   *)
(* order                                                                     *)

ParIds == {c \in BootIds : c <= 2}

ParInit ==
  /\ envUrl = Undefined
  /\ location \in FetchLocations
  /\ derived = NotCalled
  /\ calls = [c \in CallIds |-> IdleFrame]
  /\ pending = EmptyBag
  /\ AppInit
  /\ last = [op |-> "init"]

\* lines 106-108: both calls run up to their first await
ParCall ==
  /\ \A c \in ParIds : calls[c].st = "idle"
  /\ calls' = [c \in CallIds |->
                 IF c \in ParIds
                 THEN ApiGetFrame("harness", Null, BootPath(c), envUrl, location)
                 ELSE calls[c]]
  /\ last' = [op |-> "apiGet"]
  /\ UNCHANGED <<envVars, derived, pending, navVars>>

\* lines 34-39: `await fetch(url)` of the call c settles
ParFetchSettlesSharedErr(c, o) ==
  /\ c \in ParIds
  /\ calls[c].st = "fetch"
  /\ calls' = [d \in CallIds |->
                 IF d = c THEN OnFetchSettled(calls[c], o)
                 ELSE IF d \in ParIds /\ o # "ok"
                   THEN [calls[d] EXCEPT !.lastErr = ErrorOf(o)]
                 ELSE calls[d]]
  /\ last' = [op |-> "fetchSettled", call |-> c]
  /\ UNCHANGED <<envVars, derived, pending, navVars>>

ParFetchSettles(c, o) ==
  /\ c \in ParIds
  /\ calls[c].st = "fetch"
  /\ calls' = [calls EXCEPT ![c] = OnFetchSettled(@, o)]
  /\ last' = [op |-> "fetchSettled", call |-> c]
  /\ UNCHANGED <<envVars, derived, pending, navVars>>

\* lines 35 and 37-39: `await res.json()` of the call c settles
ParJsonSettles(c, o) ==
  /\ c \in ParIds
  /\ calls[c].st = "json"
  /\ calls' = [calls EXCEPT ![c] = OnJsonSettled(@, o)]
  /\ last' = [op |-> "jsonSettled", call |-> c]
  /\ UNCHANGED <<envVars, derived, pending, navVars>>

ParNext ==
  \/ ParCall
  \/ \E c \in ParIds, o \in FetchOutcomes : ParFetchSettles(c, o)
  \/ \E c \in ParIds, o \in JsonOutcomes : ParJsonSettles(c, o)

SpecPar == ParInit /\ [][ParNext]_vars

----------------------------------------------------------------------------
(* Properties of apiGet, checked under SpecFetch *)

H == calls[HarnessId]

Failures == {"transport", "http404", "http500", "badjson"}

\* C1: the requests of one apiGet call are candidate+path for the candidates
\* in list order; a request is issued only after every earlier one has
\* failed (one at a time); no request follows a success; and the call
\* returns, after exactly k requests, the parsed body of the candidate at
\* the position k of the first success.
C1_FirstSuccessWins ==
  /\ Len(H.requests) <= Len(H.bases)
  /\ \A i \in 1..Len(H.requests) : H.requests[i] = H.bases[i] \o H.path
  /\ Len(H.outcomes) <= Len(H.requests)
  /\ Len(H.requests) <= Len(H.outcomes) + 1
  /\ \A i \in 1..Len(H.outcomes) :
       i < Len(H.requests) => H.outcomes[i] \in Failures
  /\ \A i \in 1..Len(H.outcomes) :
       H.outcomes[i] = "json" =>
         /\ i = Len(H.requests)
         /\ H.st = "returned"
         /\ H.result = Backend(H.bases[i] \o H.path)
  /\ H.st = "returned" =>
       /\ Len(H.outcomes) = Len(H.requests)
       /\ H.outcomes[Len(H.outcomes)] = "json"

\* C1 witness: the third of four candidates succeeded after two failures
C1_Witness ==
  /\ H.st = "returned"
  /\ Len(H.bases) = 4
  /\ Len(H.requests) = 3
  /\ H.result.self = H.bases[3] \o PathMenu

\* C2: when all N candidates fail the call throws after exactly N requests,
\* one per candidate in list order, and the error thrown is the failure of
\* the last candidate
C2_AllFailThrowsLast ==
  /\ H.st = "thrown" =>
       /\ Len(H.requests) = Len(H.bases)
       /\ \A i \in 1..Len(H.bases) : H.requests[i] = H.bases[i] \o H.path
       /\ Len(H.outcomes) = Len(H.bases)
       /\ \A i \in 1..Len(H.outcomes) : H.outcomes[i] \in Failures
       /\ H.thrown = ErrorOf(H.outcomes[Len(H.bases)])
  /\ ( /\ Len(H.outcomes) = Len(H.bases)
       /\ H.st # "idle"
       /\ \A i \in 1..Len(H.outcomes) : H.outcomes[i] \in Failures )
       => H.st = "thrown"

\* C2 witness: four candidates failed, the first and the last differently
C2_Witness ==
  /\ H.st = "thrown"
  /\ Len(H.bases) = 4
  /\ H.outcomes[1] = "transport"
  /\ H.outcomes[4] = "http500"
  /\ H.thrown = "Error: HTTP 500"

\* C3: a non-OK status, a rejected fetch and a JSON parse failure are each
\* recorded as lastErr and followed by the request for the next candidate;
\* the call throws only when no untried candidate remains
C3_FailuresAlike ==
  /\ \A i \in 1..Len(H.outcomes) :
       (H.outcomes[i] \in Failures /\ i < Len(H.bases))
         => Len(H.requests) > i
  /\ (Len(H.outcomes) > 0 /\ H.outcomes[Len(H.outcomes)] \in Failures)
       => H.lastErr = ErrorOf(H.outcomes[Len(H.outcomes)])
  /\ H.st = "thrown" => Len(H.outcomes) = Len(H.bases)

\* C3 witness: the three kinds of failure in a row, the fourth candidate
\* being requested
C3_Witness ==
  /\ H.st = "fetch"
  /\ H.idx = 4
  /\ H.outcomes = <<"http404", "transport", "badjson">>
  /\ H.lastErr = ErrorOf("badjson")

----------------------------------------------------------------------------
(* Properties of tryDeriveBackendURLs, checked under SpecResolver *)

EndsInSlash(u) == u # <<>> /\ u[Len(u)] = "/"

\* C4 (as claimed): with a non-empty override the first element of the list
\* is the override without its trailing '/', and does not end in '/'
C4_OverrideFirstNoSlash ==
  (derived.called /\ Truthy(envUrl)) =>
    /\ \E k \in 0..Len(envUrl) : derived.urls[1] \o Slashes(k) = envUrl
    /\ ~EndsInSlash(derived.urls[1])

\* C5 (as claimed): the list contains '' and '' is its last element
C5_FallbackLast ==
  derived.called =>
    /\ Has(derived.urls, EmptyStr)
    /\ derived.urls[Len(derived.urls)] = EmptyStr

\* C5 (amended): the list is never empty and contains ''; '' is the last
\* element unless the override is '/', which is normalized to '' and then
\* makes '' the first element
C5_FallbackLastUnlessOverrideSlash ==
  derived.called =>
    /\ derived.urls # <<>>
    /\ Has(derived.urls, EmptyStr)
    /\ envUrl # <<"/">> => derived.urls[Len(derived.urls)] = EmptyStr
    /\ envUrl = <<"/">> => derived.urls[1] = EmptyStr

\* C5 witness: the override '/' and a readable location: '' comes first and
\* a derived candidate after it
C5_Witness ==
  /\ derived.called
  /\ envUrl = <<"/">>
  /\ location.readable
  /\ Len(derived.urls) >= 2
  /\ derived.urls[1] = EmptyStr
  /\ derived.urls[Len(derived.urls)] # EmptyStr

Priority ==
  LET raw == RawURLs(envUrl, location)
  IN [i \in 1..Len(raw) |-> Normalize(raw[i])]

FirstAt(seq, x) == CHOOSE i \in 1..Len(seq) :
                     seq[i] = x /\ \A j \in 1..(i - 1) : seq[j] # x

\* C6: the list has no two equal entries, has the entries of the normalized
\* priority sequence [override, alternate port, platform rewrite, ''], and
\* lists them in the order of their first occurrence there
C6_UniqueFirstSeen ==
  derived.called =>
    /\ \A i, j \in 1..Len(derived.urls) :
         i # j => derived.urls[i] # derived.urls[j]
    /\ {derived.urls[i] : i \in 1..Len(derived.urls)}
         = {Priority[i] : i \in 1..Len(Priority)}
    /\ \A i, j \in 1..Len(derived.urls) :
         i < j => FirstAt(Priority, derived.urls[i])
                    < FirstAt(Priority, derived.urls[j])

\* C6 witness: an override, and a platform-rewrite candidate equal to the
\* alternate-port candidate, so that a repetition in the middle of the
\* sequence is removed
C6_Witness ==
  /\ derived.called
  /\ Len(Priority) = 4
  /\ Priority[2] = Priority[3]
  /\ Priority[1] # Priority[2]
  /\ derived.urls = <<Priority[1], Priority[2], EmptyStr>>

Origin(loc, h) == loc.protocol \o <<"/", "/">> \o h

\* C7 (as claimed): a host containing '-3000' and ending in '.run' yields the
\* candidate with both substitutions; a host containing '-3000' and not
\* ending in '.run' yields no third candidate: the list has only the
\* override, the alternate-port candidate and ''
C7_RewriteOnlyIfBoth ==
  (derived.called /\ location.readable /\ Includes(location.host, Dash3000)) =>
    /\ EndsWith(location.host, DotRun) =>
         Has(derived.urls,
             Origin(location,
                    Replace(Replace(location.host, Dash3000, Dash8000),
                            DotRun, DashApiDotRun)))
    /\ ~EndsWith(location.host, DotRun) =>
         \A i \in 1..Len(derived.urls) :
           \/ derived.urls[i] = EmptyStr
           \/ derived.urls[i]
                = Normalize(Origin(location, Replace(location.host, S3000, S8000)))
           \/ Truthy(envUrl) /\ derived.urls[i] = Normalize(envUrl)

----------------------------------------------------------------------------
(* The App component, checked under Spec.                                  *)
(* A handler and the microtasks it queues run to completion before the     *)
(* next event: when the last await of an apiGet call settles, the          *)
(* continuation of its caller runs in the same step.                       *)

\* the outcomes the network produces for the App
AppFetchOutcomes == {"ok", "http500"}
AppJsonOutcomes == {"json"}

Init ==
  /\ envUrl = Undefined
  /\ location = AppLocation
  /\ derived = NotCalled
  /\ calls = [c \in CallIds |-> IdleFrame]
  /\ pending = EmptyBag
  /\ AppInit
  /\ last = [op |-> "init"]

Settled(f) == f.st \in {"returned", "thrown"}

\* lines 100-112: the effect runs bootstrap() up to its await
MountRetries ==
  /\ mounted
  /\ bootPc \in {"init", "done"}
  /\ loading' = TRUE
  /\ error' = ""
  /\ calls' = [c \in CallIds |->
                 IF c \in BootIds
                 THEN ApiGetFrame("bootstrap", Null, BootPath(c), envUrl, location)
                 ELSE calls[c]]
  /\ bootPc' = "waiting"
  /\ last' = [op |-> "bootstrap"]
  /\ UNCHANGED <<envVars, derived, pending, stage, menuItems, techItems,
                 designFocus, reviews, contacts, selectedTech, projects,
                 selectedFocus, gallery, mounted>>

Mount ==
  /\ mounted
  /\ bootPc = "init"
  /\ loading' = TRUE
  /\ error' = ""
  /\ calls' = [c \in CallIds |->
                 IF c \in BootIds
                 THEN ApiGetFrame("bootstrap", Null, BootPath(c), envUrl, location)
                 ELSE calls[c]]
  /\ bootPc' = "waiting"
  /\ last' = [op |-> "bootstrap"]
  /\ UNCHANGED <<envVars, derived, pending, stage, menuItems, techItems,
                 designFocus, reviews, contacts, selectedTech, projects,
                 selectedFocus, gallery, mounted>>

\* line 126: the cleanup of the effect
Unmount ==
  /\ mounted
  /\ bootPc # "init"
  /\ mounted' = FALSE
  /\ last' = [op |-> "unmount"]
  /\ UNCHANGED <<envVars, derived, calls, pending, stage, menuItems,
                 techItems, designFocus, reviews, contacts, selectedTech,
                 projects, selectedFocus, gallery, loading, error, bootPc>>

\* lines 106-123: what bootstrap() does when the call c of its Promise.all
\* settles as frame f.  Promise.all rejects with the first rejection and
\* fulfils when all five calls have returned.
BootstrapContinues(c, f) ==
  LET after == [calls EXCEPT ![c] = f]
  IN IF bootPc # "waiting"
     THEN /\ calls' = after
          /\ last' = [op |-> "await"]
          /\ UNCHANGED <<menuItems, techItems, designFocus, reviews, contacts,
                         loading, error, bootPc>>
     ELSE IF f.st = "thrown"
     THEN /\ calls' = after
          /\ error' = BootstrapError
          /\ loading' = FALSE
          /\ bootPc' = "done"
          /\ last' = [op |-> "bootstrapFailed"]
          /\ UNCHANGED <<menuItems, techItems, designFocus, reviews, contacts>>
     ELSE IF \A b \in BootIds : after[b].st = "returned"
     THEN /\ calls' = [b \in CallIds |->
                         IF b \in BootIds THEN IdleFrame ELSE after[b]]
          /\ IF mounted
             THEN /\ menuItems' = FieldOrEmpty(after[1].result, "items")
                  /\ techItems' = FieldOrEmpty(after[2].result, "items")
                  /\ designFocus' = FieldOrEmpty(after[3].result, "items")
                  /\ reviews' = FieldOrEmpty(after[4].result, "items")
                  /\ contacts' = FieldOrEmpty(after[5].result, "items")
             ELSE UNCHANGED <<menuItems, techItems, designFocus, reviews,
                              contacts>>
          /\ loading' = FALSE
          /\ bootPc' = "done"
          /\ last' = [op |-> "bootstrapLoaded"]
          /\ UNCHANGED error
     ELSE /\ calls' = after
          /\ last' = [op |-> "await"]
          /\ UNCHANGED <<menuItems, techItems, designFocus, reviews, contacts,
                         loading, error, bootPc>>

\* an await of the bootstrap call c has settled and left the frame f
BootCallContinues(c, f) ==
  /\ IF Settled(f)
     THEN BootstrapContinues(c, f)
     ELSE /\ calls' = [calls EXCEPT ![c] = f]
          /\ last' = [op |-> "await"]
          /\ UNCHANGED <<menuItems, techItems, designFocus, reviews, contacts,
                         loading, error, bootPc>>
  /\ UNCHANGED <<envVars, derived, pending, stage, selectedTech, projects,
                 selectedFocus, gallery, mounted>>

BootFetchSettles(c, o) ==
  /\ calls[c].st = "fetch"
  /\ BootCallContinues(c, OnFetchSettled(calls[c], o))

BootJsonSettles(c, o) ==
  /\ calls[c].st = "json"
  /\ BootCallContinues(c, OnJsonSettled(calls[c], o))

\* lines 151-157: confirmTech after its await, f being the settled frame of
\* its apiGet call
ConfirmTechContinuesAlways(f) ==
  /\ projects' = FieldOrEmpty(f.result, "projects")
  /\ stage' = "frontend-projects"
  /\ loading' = FALSE
  /\ last' = [op |-> "confirmTechDone", ok |-> f.st = "returned",
              arg |-> f.arg, body |-> f.result, from |-> stage]
  /\ UNCHANGED <<error, gallery>>

ConfirmTechContinues(f) ==
  /\ IF f.st = "returned"
     THEN /\ projects' = FieldOrEmpty(f.result, "projects")
          /\ stage' = "frontend-projects"
          /\ UNCHANGED error
     ELSE /\ error' = "Could not load projects"
          /\ UNCHANGED <<projects, stage>>
  /\ loading' = FALSE
  /\ last' = [op |-> "confirmTechDone", ok |-> f.st = "returned",
              arg |-> f.arg, body |-> f.result, from |-> stage]
  /\ UNCHANGED gallery

\* lines 166-172: confirmFocus after its await
ConfirmFocusContinuesClearsList(f) ==
  /\ IF f.st = "returned"
     THEN /\ gallery' = FieldOrEmpty(f.result, "items")
          /\ stage' = "uiux-gallery"
          /\ UNCHANGED error
     ELSE /\ error' = "Could not load gallery"
          /\ gallery' = <<>>
          /\ UNCHANGED stage
  /\ loading' = FALSE
  /\ last' = [op |-> "confirmFocusDone", ok |-> f.st = "returned",
              arg |-> f.arg, body |-> f.result, from |-> stage]
  /\ UNCHANGED projects

ConfirmFocusContinues(f) ==
  /\ IF f.st = "returned"
     THEN /\ gallery' = FieldOrEmpty(f.result, "items")
          /\ stage' = "uiux-gallery"
          /\ UNCHANGED error
     ELSE /\ error' = "Could not load gallery"
          /\ UNCHANGED <<gallery, stage>>
  /\ loading' = FALSE
  /\ last' = [op |-> "confirmFocusDone", ok |-> f.st = "returned",
              arg |-> f.arg, body |-> f.result, from |-> stage]
  /\ UNCHANGED projects

\* an await of the confirm call with frame f has settled and left the
\* frame g
ConfirmCallContinues(f, g) ==
  /\ IF Settled(g)
     THEN /\ pending' = pending (-) SetToBag({f})
          /\ IF g.owner = "confirmTech"
             THEN ConfirmTechContinues(g)
             ELSE ConfirmFocusContinues(g)
     ELSE /\ pending' = (pending (-) SetToBag({f})) (+) SetToBag({g})
          /\ last' = [op |-> "await"]
          /\ UNCHANGED <<stage, projects, gallery, loading, error>>
  /\ UNCHANGED <<envVars, derived, calls, menuItems, techItems, designFocus,
                 reviews, contacts, selectedTech, selectedFocus, mounted,
                 bootPc>>

ConfirmFetchSettles(f, o) ==
  /\ f \in BagToSet(pending)
  /\ f.st = "fetch"
  /\ ConfirmCallContinues(f, OnFetchSettled(f, o))

ConfirmJsonSettles(f, o) ==
  /\ f \in BagToSet(pending)
  /\ f.st = "json"
  /\ ConfirmCallContinues(f, OnJsonSettled(f, o))

\* lines 229-240: onClick of the i-th menu item
MenuTargetSwapped(key) ==
  CASE key = "frontend" -> "frontend-tech"
    [] key = "uiux" -> "uiux-focus"
    [] key = "reviews" -> "contact"
    [] key = "about" -> "reviews"
    [] OTHER -> stage

MenuTarget(key) ==
  CASE key = "frontend" -> "frontend-tech"
    [] key = "uiux" -> "uiux-focus"
    [] key = "reviews" -> "reviews"
    [] key = "about" -> "contact"
    [] OTHER -> stage

ClickMenuItem(i) ==
  /\ mounted
  /\ stage = "menu"
  /\ i \in 1..Len(menuItems)
  /\ stage' = MenuTarget(menuItems[i].key)
  /\ last' = [op |-> "menuClick", key |-> menuItems[i].key]
  /\ UNCHANGED <<envVars, derived, calls, pending, menuItems, techItems, designFocus,
                 reviews, contacts, selectedTech, projects, selectedFocus,
                 gallery, loading, error, mounted, bootPc>>

\* line 354: onClick of the i-th tech button
SelectTech(i) ==
  /\ mounted
  /\ stage = "frontend-tech"
  /\ i \in 1..Len(techItems)
  /\ selectedTech' = techItems[i]
  /\ last' = [op |-> "selectTech"]
  /\ UNCHANGED <<envVars, derived, calls, pending, stage, menuItems, techItems,
                 designFocus, reviews, contacts, projects, selectedFocus,
                 gallery, loading, error, mounted, bootPc>>

\* line 377: onClick of the i-th focus button
SelectFocus(i) ==
  /\ mounted
  /\ stage = "uiux-focus"
  /\ i \in 1..Len(designFocus)
  /\ selectedFocus' = designFocus[i]
  /\ last' = [op |-> "selectFocus"]
  /\ UNCHANGED <<envVars, derived, calls, pending, stage, menuItems, techItems,
                 designFocus, reviews, contacts, selectedTech, projects,
                 gallery, loading, error, mounted, bootPc>>

\* lines 146-150: confirmTech up to its await (the CONFIRM button of
\* frontend-tech)
SelectionMissingTechIgnored == FALSE

SelectionMissingTech == ~Truthy(selectedTech)

ConfirmTech ==
  /\ mounted
  /\ stage = "frontend-tech"
  /\ IF SelectionMissingTech
     THEN /\ last' = [op |-> "confirmTech", issued |-> FALSE]
          /\ UNCHANGED <<pending, loading>>
     ELSE /\ BagCardinality(pending) < MaxInFlight
          /\ loading' = TRUE
          /\ pending' = pending (+) SetToBag({
                 ApiGetFrame("confirmTech", selectedTech,
                             PathProjects \o encodeURIComponent(selectedTech),
                             envUrl, location)})
          /\ last' = [op |-> "confirmTech", issued |-> TRUE]
  /\ UNCHANGED <<envVars, derived, calls, stage, menuItems, techItems,
                 designFocus, reviews, contacts, selectedTech, projects,
                 selectedFocus, gallery, error, mounted, bootPc>>

\* lines 161-165: confirmFocus up to its await (the CONFIRM button of
\* uiux-focus)
SelectionMissingFocus == ~Truthy(selectedFocus)

ConfirmFocus ==
  /\ mounted
  /\ stage = "uiux-focus"
  /\ IF SelectionMissingFocus
     THEN /\ last' = [op |-> "confirmFocus", issued |-> FALSE]
          /\ UNCHANGED <<pending, loading>>
     ELSE /\ BagCardinality(pending) < MaxInFlight
          /\ loading' = TRUE
          /\ pending' = pending (+) SetToBag({
                 ApiGetFrame("confirmFocus", selectedFocus,
                             PathGallery \o encodeURIComponent(selectedFocus),
                             envUrl, location)})
          /\ last' = [op |-> "confirmFocus", issued |-> TRUE]
  /\ UNCHANGED <<envVars, derived, calls, stage, menuItems, techItems,
                 designFocus, reviews, contacts, selectedTech, projects,
                 selectedFocus, gallery, error, mounted, bootPc>>

\* lines 135-140
BackTargetAlwaysMenu(s) == "menu"

BackTarget(s) ==
  IF s = "frontend-projects" THEN "frontend-tech"
  ELSE IF s \in {"frontend-tech", "uiux-focus", "reviews", "contact"} THEN "menu"
  ELSE IF s = "uiux-gallery" THEN "uiux-focus"
  ELSE "menu"

\* lines 336 and 416: the Back buttons, rendered when stage is not menu
GoBack ==
  /\ mounted
  /\ stage # "menu"
  /\ stage' = BackTarget(stage)
  /\ last' = [op |-> "back", from |-> stage]
  /\ UNCHANGED <<envVars, derived, calls, pending, menuItems, techItems, designFocus,
                 reviews, contacts, selectedTech, projects, selectedFocus,
                 gallery, loading, error, mounted, bootPc>>

\* line 417: the Menu button
GoMenuAsBack ==
  /\ mounted
  /\ stage # "menu"
  /\ stage' = BackTarget(stage)
  /\ last' = [op |-> "menu", from |-> stage]
  /\ UNCHANGED <<envVars, derived, calls, pending, menuItems, techItems, designFocus,
                 reviews, contacts, selectedTech, projects, selectedFocus,
                 gallery, loading, error, mounted, bootPc>>

GoMenu ==
  /\ mounted
  /\ stage # "menu"
  /\ stage' = "menu"
  /\ last' = [op |-> "menu", from |-> stage]
  /\ UNCHANGED <<envVars, derived, calls, pending, menuItems, techItems, designFocus,
                 reviews, contacts, selectedTech, projects, selectedFocus,
                 gallery, loading, error, mounted, bootPc>>

Next ==
  \/ Mount
  \/ Unmount
  \/ \E c \in BootIds, o \in AppFetchOutcomes : BootFetchSettles(c, o)
  \/ \E c \in BootIds, o \in AppJsonOutcomes : BootJsonSettles(c, o)
  \/ \E f \in BagToSet(pending), o \in AppFetchOutcomes : ConfirmFetchSettles(f, o)
  \/ \E f \in BagToSet(pending), o \in AppJsonOutcomes : ConfirmJsonSettles(f, o)
  \/ \E i \in 1..5 : ClickMenuItem(i)
  \/ \E i \in 1..2 : SelectTech(i)
  \/ \E i \in 1..2 : SelectFocus(i)
  \/ ConfirmTech
  \/ ConfirmFocus
  \/ GoBack
  \/ GoMenu

Spec == Init /\ [][Next]_vars

----------------------------------------------------------------------------
(* Properties of the App component, checked under Spec *)

Collections == <<menuItems, techItems, designFocus, reviews, contacts>>

\* C8: a click on a menu item in stage menu sets the stage to the stage
\* mapped to the item's key (frontend: frontend-tech, uiux: uiux-focus,
\* reviews: reviews, about: contact) and changes nothing else: no apiGet call
\* is started, no selection and no collection changes
C8_MenuActionsMapped ==
  [][ (stage = "menu" /\ last'.op = "menuClick") =>
        /\ last'.key = "frontend" => stage' = "frontend-tech"
        /\ last'.key = "uiux" => stage' = "uiux-focus"
        /\ last'.key = "reviews" => stage' = "reviews"
        /\ last'.key = "about" => stage' = "contact"
        /\ UNCHANGED <<calls, pending, selectedTech, selectedFocus,
                       Collections, projects, gallery, loading, error>>
    ]_vars

\* C8 witness: the item 'about' was clicked and the stage is contact
C8_Witness ==
  /\ last.op = "menuClick"
  /\ last.key = "about"
  /\ stage = "contact"
  /\ Len(menuItems) = 5

ResponseList(body, k) ==
  IF k \notin DOMAIN body THEN <<>>
  ELSE IF Falsy(body[k]) THEN <<>>
  ELSE body[k]

\* C9: when the fetch of a confirm settles, the stage becomes
\* frontend-projects (uiux-gallery) and the projects (gallery) list becomes
\* the list of the response if the fetch succeeded, and stage and list stay as
\* they are if it failed; the stage becomes frontend-projects (uiux-gallery)
\* in no other way
C9_ConfirmAdvancesIffFetchOk ==
  [][ /\ last'.op = "confirmTechDone" =>
           IF last'.ok
           THEN /\ stage' = "frontend-projects"
                /\ projects' = ResponseList(last'.body, "projects")
           ELSE /\ stage' = stage
                /\ projects' = projects
      /\ last'.op = "confirmFocusDone" =>
           IF last'.ok
           THEN /\ stage' = "uiux-gallery"
                /\ gallery' = ResponseList(last'.body, "items")
           ELSE /\ stage' = stage
                /\ gallery' = gallery
      /\ (stage' = "frontend-projects" /\ stage # "frontend-projects") =>
           (last'.op = "confirmTechDone" /\ last'.ok)
      /\ (stage' = "uiux-gallery" /\ stage # "uiux-gallery") =>
           (last'.op = "confirmFocusDone" /\ last'.ok)
    ]_vars

\* C9 witness: the projects of React were fetched from frontend-tech and are
\* on display
C9_Witness ==
  /\ last.op = "confirmTechDone"
  /\ last.ok
  /\ last.from = "frontend-tech"
  /\ last.arg = React
  /\ stage = "frontend-projects"
  /\ projects = <<[title |-> "X"]>>

\* C10: a confirm with no selection changes nothing: the stage, the error,
\* the loading flag and the apiGet calls are as before
C10_ConfirmWithoutSelectionNoOp ==
  [][ ( \/ last'.op = "confirmTech" /\ ~Truthy(selectedTech)
        \/ last'.op = "confirmFocus" /\ ~Truthy(selectedFocus) ) =>
        /\ ~last'.issued
        /\ UNCHANGED <<stage, calls, pending, error, loading, selectedTech,
                       selectedFocus, projects, gallery, Collections>>
    ]_vars

\* C10 witness: CONFIRM was pressed in frontend-tech with no tech selected
C10_Witness ==
  /\ last.op = "confirmTech"
  /\ ~last.issued
  /\ selectedTech = Null
  /\ stage = "frontend-tech"
  /\ pending = EmptyBag
  /\ ~loading
  /\ error = ""

\* C11: every step of the back action follows the map: frontend-projects to
\* frontend-tech, uiux-gallery to uiux-focus, and frontend-tech, uiux-focus,
\* reviews and contact to menu; it changes nothing but the stage
C11_BackFollowsMap ==
  [][ last'.op = "back" =>
        /\ stage = "frontend-projects" => stage' = "frontend-tech"
        /\ stage = "uiux-gallery" => stage' = "uiux-focus"
        /\ stage \in {"frontend-tech", "uiux-focus", "reviews", "contact"}
             => stage' = "menu"
        /\ stage # "menu"
        /\ last'.from = stage
        /\ UNCHANGED <<calls, pending, selectedTech, selectedFocus,
                       Collections, projects, gallery, loading, error>>
    ]_vars

\* C11 witness: back was pressed in frontend-projects, with the projects of
\* React on display, and led to frontend-tech
C11_Witness ==
  /\ last.op = "back"
  /\ last.from = "frontend-projects"
  /\ stage = "frontend-tech"
  /\ projects = <<[title |-> "X"]>>

\* C12: the completion of a confirm fetch that arrives after the user has
\* left the stages of its flow (back or menu action) changes neither the stage
\* nor the projects (gallery) list
C12_StaleConfirmDiscarded ==
  [][ /\ (last'.op = "confirmTechDone"
            /\ stage \notin {"frontend-tech", "frontend-projects"})
         => (stage' = stage /\ projects' = projects)
      /\ (last'.op = "confirmFocusDone"
            /\ stage \notin {"uiux-focus", "uiux-gallery"})
         => (stage' = stage /\ gallery' = gallery)
    ]_vars

\* C13: once bootstrap is over, each of the five collections holds the items
\* of its own fetch if that fetch returned and is empty if that fetch threw,
\* whatever the other four fetches did
C13_BootstrapPerCollection ==
  (bootPc = "done" /\ mounted) =>
    \A c \in BootIds :
      /\ (calls[c].owner = "bootstrap" /\ calls[c].st = "returned")
           => Collections[c] = FieldOrEmpty(calls[c].result, "items")
      /\ (calls[c].owner = "bootstrap" /\ calls[c].st = "thrown")
           => Collections[c] = <<>>

\* C14: loading is true from the start and stays true while any of the five
\* fetches of bootstrap is in flight
C14_LoadingUntilAllSettled ==
  (bootPc \in {"init", "waiting"}
     \/ \E c \in BootIds : calls[c].owner = "bootstrap" /\ InFlight(calls[c]))
  => loading

\* C15 (as claimed): the alternate-port candidate is added if and only if the
\* host contains '3000': for such a host the list contains scheme//host with
\* '3000' replaced by '8000'; for a host without '3000' the list is just the
\* override, if configured, followed by ''
C15_PortCandidateIff3000 ==
  (derived.called /\ location.readable) =>
    /\ Includes(location.host, S3000) =>
         Has(derived.urls,
             Normalize(Origin(location, Replace(location.host, S3000, S8000))))
    /\ ~Includes(location.host, S3000) =>
         \A i \in 1..Len(derived.urls) :
           \/ derived.urls[i] = EmptyStr
           \/ Truthy(envUrl) /\ derived.urls[i] = Normalize(envUrl)

\* C15 (amended): whenever the location can be read the list contains the
\* normalized same-scheme candidate scheme//host with the first '3000' of the
\* host replaced by '8000'; for a host without '3000' that candidate is the
\* page's own origin scheme//host, and the list holds nothing but the
\* normalized override, that origin and ''
C15_PortCandidateAlways ==
  (derived.called /\ location.readable) =>
    /\ Has(derived.urls,
           Normalize(Origin(location, Replace(location.host, S3000, S8000))))
    /\ ~Includes(location.host, S3000) =>
         /\ Has(derived.urls, Normalize(Origin(location, location.host)))
         /\ \A i \in 1..Len(derived.urls) :
              \/ derived.urls[i] = EmptyStr
              \/ derived.urls[i] = Normalize(Origin(location, location.host))
              \/ Truthy(envUrl) /\ derived.urls[i] = Normalize(envUrl)

\* C15 witness: no override, a host without '3000': the list is the page's own
\* origin followed by ''
C15_Witness ==
  /\ derived.called
  /\ location.readable
  /\ location.host # <<>>
  /\ ~Includes(location.host, S3000)
  /\ envUrl = Undefined
  /\ derived.urls = <<Origin(location, location.host), EmptyStr>>

\* C16: at most one confirm fetch (projects or gallery) is in flight at any
\* moment: a confirm fired while an earlier confirm fetch has not completed
\* starts no second fetch
C16_OneConfirmInFlight == BagCardinality(pending) <= 1

\* C17: when a confirm fetch succeeds while the error message of an earlier
\* failed confirm is set, the error message becomes empty
C17_RetrySuccessClearsError ==
  [][ ( /\ last'.op \in {"confirmTechDone", "confirmFocusDone"}
        /\ last'.ok
        /\ error \in {"Could not load projects", "Could not load gallery"} )
      => error' = ""
    ]_vars

\* C18: the step that handles a failed confirm fetch changes only the error
\* message and the loading flag: stage, selectedTech, selectedFocus, the
\* projects and gallery lists and the five bootstrap collections stay as they
\* are, the error becomes the message of the handler and loading becomes false
C18_ConfirmFailureKeepsState ==
  [][ ( /\ last'.op \in {"confirmTechDone", "confirmFocusDone"}
        /\ ~last'.ok )
      => /\ UNCHANGED <<stage, selectedTech, selectedFocus, projects, gallery,
                        Collections>>
         /\ error' = IF last'.op = "confirmTechDone"
                     THEN "Could not load projects"
                     ELSE "Could not load gallery"
         /\ ~loading'
    ]_vars

\* C18 witness: a gallery is loaded, the user is back in uiux-focus, and a
\* second confirm has failed: the gallery is still there
C18_Witness ==
  /\ last.op = "confirmFocusDone"
  /\ ~last.ok
  /\ error = "Could not load gallery"
  /\ gallery # <<>>
  /\ stage = "uiux-focus"
  /\ selectedFocus = Motion

Stages ==
  {"menu", "frontend-tech", "frontend-projects", "uiux-focus", "uiux-gallery",
   "reviews", "contact"}

\* C19: in every reachable state the stage is one of the seven stages; the
\* session starts at menu with no selection; while the component is mounted
\* the menu action is enabled in every non-menu stage, and a state reached by
\* the menu action has stage menu, so there is no terminal stage
C19_StagesAndMenuReachable ==
  /\ stage \in Stages
  /\ last.op = "init" =>
       (stage = "menu" /\ selectedTech = Null /\ selectedFocus = Null)
  /\ (mounted /\ stage # "menu") => ENABLED GoMenu
  /\ last.op = "menu" => (stage = "menu" /\ last.from \in Stages \ {"menu"})

\* C19 witness: the menu action was taken in frontend-projects, two steps away
\* from menu by the back action, and led to menu
C19_Witness ==
  /\ last.op = "menu"
  /\ last.from = "frontend-projects"
  /\ stage = "menu"
  /\ projects # <<>>

\* the last failure among the outcomes os of a call, or none
RECURSIVE LastFailure(_)
LastFailure(os) ==
  IF os = <<>> THEN UndefinedErr
  ELSE IF os[Len(os)] \in Failures THEN ErrorOf(os[Len(os)])
  ELSE LastFailure(SubSeq(os, 1, Len(os) - 1))

\* what the call with frame f shows, read off its own candidates, path and
\* outcomes only
OwnScan(f) ==
  LET n == Len(f.requests)
      k == Len(f.outcomes)
  IN /\ n <= Len(f.bases)
     /\ \A i \in 1..n : f.requests[i] = f.bases[i] \o f.path
     /\ k <= n /\ n <= k + 1
     /\ \A i \in 1..k : i < n => f.outcomes[i] \in Failures
     /\ f.lastErr = LastFailure(f.outcomes)
     /\ f.st = "fetch" <=> n = k + 1
     /\ f.st = "json" <=> (k = n /\ k > 0 /\ f.outcomes[k] = "ok")
     /\ f.st = "returned" <=> (k = n /\ k > 0 /\ f.outcomes[k] = "json")
     /\ f.st = "thrown" <=>
          (k = n /\ k = Len(f.bases) /\ f.outcomes[k] \in Failures)
     /\ f.st = "returned" => f.result = Backend(f.bases[k] \o f.path)
     /\ f.st = "thrown" => f.thrown = ErrorOf(f.outcomes[k])

\* C20: under every interleaving of two apiGet calls issued together, each
\* call requests its own candidates in list order, has at most one request of
\* its own unsettled, and its state, attempts, last error and result or
\* thrown error are those given by the outcomes of its own requests alone
C20_ParallelCallsIndependent ==
  \A c \in ParIds :
    calls[c].st # "idle" =>
      /\ calls[c].path = BootPath(c)
      /\ calls[c].bases = tryDeriveBackendURLs(envUrl, location)
      /\ OwnScan(calls[c])

\* C20 witness: with three candidates, the first call failed on all three and
\* threw while the second returned at its second candidate after a failure of
\* another kind
C20_Witness ==
  /\ calls[1].st = "thrown"
  /\ calls[1].outcomes = <<"http500", "http500", "http500">>
  /\ calls[1].thrown = "Error: HTTP 500"
  /\ calls[2].st = "returned"
  /\ calls[2].outcomes = <<"transport", "json">>
  /\ calls[2].lastErr = "TypeError: Failed to fetch"
  /\ calls[2].result = Backend(calls[2].bases[2] \o PathTech)

\* C21: whenever the stage is frontend-projects, the projects list is the
\* response to the projects request for the currently selected tech, and
\* whenever the stage is uiux-gallery, the gallery list is the response to
\* the gallery request for the currently selected focus
C21_ListMatchesSelection ==
  LET bases == tryDeriveBackendURLs(envUrl, location)
  IN /\ stage = "frontend-projects" =>
          /\ Truthy(selectedTech)
          /\ \E i \in 1..Len(bases) :
               projects
                 = FieldOrEmpty(Backend(bases[i] \o PathProjects
                                          \o encodeURIComponent(selectedTech)),
                                "projects")
     /\ stage = "uiux-gallery" =>
          /\ Truthy(selectedFocus)
          /\ \E i \in 1..Len(bases) :
               gallery
                 = FieldOrEmpty(Backend(bases[i] \o PathGallery
                                          \o encodeURIComponent(selectedFocus)),
                                "items")

BootstrapFailed ==
  \E c \in BootIds : calls[c].owner = "bootstrap" /\ calls[c].st = "thrown"

\* C22: a non-menu stage is entered only with a loaded menu; bootstrap is
\* issued once and never again; and once one of the five bootstrap fetches
\* has failed, the five collections are empty, the stage is menu and no
\* confirm fetch exists, in this and every later state
C22_FailedBootstrapStaysAtMenu ==
  /\ stage # "menu" => (menuItems # <<>> /\ ~BootstrapFailed)
  /\ bootPc # "init" => ~ENABLED Mount
  /\ BootstrapFailed =>
       /\ menuItems = <<>>
       /\ Collections = <<<<>>, <<>>, <<>>, <<>>, <<>>>>
       /\ stage = "menu"
       /\ pending = EmptyBag
       /\ bootPc = "done"
       /\ ~ENABLED (\E i \in 1..5 : ClickMenuItem(i))

\* C22 witness: the menu fetch returned its five items, the tech fetch failed,
\* all five fetches have settled: the menu is empty and the stage is menu
C22_Witness ==
  /\ bootPc = "done"
  /\ calls[1].st = "returned"
  /\ calls[1].owner = "bootstrap"
  /\ Len(FieldOrEmpty(calls[1].result, "items")) = 5
  /\ calls[2].st = "thrown"
  /\ \A c \in BootIds : Settled(calls[c])
  /\ error = BootstrapError
  /\ ~loading
  /\ menuItems = <<>>
  /\ stage = "menu"

====
